---- MODULE Spec2Model ----
(***************************************************************************)
(* Entity-linking evaluation of evaluations/quantitative/nel_eval.ipynb:   *)
(* is_match, find_match, prune_gold_set, calculate_precision_recall_f1,    *)
(* match_gold_pred, calculate_class_jc and get_wikidata_description; and   *)
(* the reformat loop of re/UniRel/unirel_reformat.ipynb.                   *)
(*                                                                         *)
(* Python strings are sequences of one-character strings, Python lists are *)
(* sequences, None (and pandas' NaN for a missing cell) is the value None. *)
(* List indices keep the source's 0-based values; At(l, i) reads l[i].     *)
(* The scores are exact fractions [n, d] (d > 0); a division by zero is    *)
(* the value ZeroDivisionError.                                            *)
(***************************************************************************)
EXTENDS Integers, Sequences, FiniteSets, TLC

VARIABLES
    pc,              \* position of the running call
    call,            \* the function called and its arguments (pure-function runs)
    ret,             \* the value returned
    matching, gold_set, fill_in_qids,   \* arguments of calculate_precision_recall_f1
    df_tool,         \* the tool table: rows [id, ent, qid]
    index,           \* number of gold rows iterated so far
    gs_row,          \* the gold row of the last iteration: [id, entity, qid]
    gs_entities, gs_qids,               \* the pruned gold set of that row
    tool_entities, tool_qids,           \* the tool's rows selected for that row
    gs_match_idx, tool_match_idx,       \* find_match's result for that row
    TP, FP, FN,      \* the counters
    n_nonempty,      \* gold rows iterated so far whose pruned gold set was non-empty
    twin,            \* a second run over a gold table differing in positions 1 and 2
    matched,         \* match_gold_pred's lists id, tool_ent, gold_ent, q1_gold, q2_pred
    temp_csv,        \* the file temp.csv: whether it exists, and its lines
    http,            \* the HTTP requests made so far
    response,        \* the response to the last HTTP request
    out_df           \* the reformatted table of re/UniRel/unirel_reformat.ipynb

\* the variables of the other functions of the repository
auxVars == <<matched, temp_csv, http, response, out_df>>

vars == <<pc, call, ret, matching, gold_set, fill_in_qids, df_tool, index, gs_row,
          gs_entities, gs_qids, tool_entities, tool_qids, gs_match_idx,
          tool_match_idx, TP, FP, FN, n_nonempty, twin, auxVars>>

-----------------------------------------------------------------------------
(* Bounds of the model *)

MaxTool == 2        \* rows of the tool table
MaxGold == 2        \* gold rows iterated in one call
MaxLen == 2         \* length of the strings given to is_match
MaxEnts == 2        \* length of the lists given to find_match
MaxRows == 2        \* rows of the UniRel result table

None == <<"None">>

Q1 == <<"Q", "1">>
Q2 == <<"Q", "2">>

Alphabet == {"a", "A", "B"}

RECURSIVE StrUpTo(_)
StrUpTo(n) ==
    IF n = 0 THEN {<<>>}
    ELSE LET S == StrUpTo(n - 1)
         IN  S \cup {Append(s, c) : s \in {x \in S : Len(x) = n - 1}, c \in Alphabet}

Strings == StrUpTo(MaxLen)

-----------------------------------------------------------------------------
(* Python helpers *)

At(l, i) == l[i + 1]

IsStr(x) == x # None

UpperChar(c) == CASE c = "a" -> "A" [] c = "b" -> "B" [] OTHER -> c

\* str.upper()
upper(s) == [i \in DOMAIN s |-> UpperChar(s[i])]

\* a in b, for two strings
StrIn(a, b) ==
    \E i \in 0..(Len(b) - Len(a)) : SubSeq(b, i + 1, i + Len(a)) = a

\* x in l, for a list
ListIn(x, l) == \E i \in DOMAIN l : l[i] = x

Min(S) == CHOOSE x \in S : \A y \in S : x <= y

-----------------------------------------------------------------------------
(* is_match *)

\* is_match whose weak match looks for ent1 in ent2 only
is_match_OneWay(ent1, ent2, m) ==
    IF ~IsStr(ent1) \/ ~IsStr(ent2) THEN FALSE
    ELSE IF m = "STRONG" THEN ent1 = ent2
    ELSE IF m = "WEAK" THEN StrIn(ent1, ent2)
    ELSE None

is_match(ent1, ent2, m) ==
    IF ~IsStr(ent1) \/ ~IsStr(ent2) THEN FALSE
    ELSE IF m = "STRONG" THEN ent1 = ent2
    ELSE IF m = "WEAK" THEN StrIn(ent1, ent2) \/ StrIn(ent2, ent1)
    ELSE None

-----------------------------------------------------------------------------
(* find_match *)

\* tool_entities[tool_entities.apply(is_match, ent2=..., matching=...)].index
matches(t_entities, ent2, m) ==
    {t \in 0..(Len(t_entities) - 1) : is_match(At(t_entities, t), ent2, m) = TRUE}

RECURSIVE find_match_from(_, _, _, _, _)
find_match_from(gold_idx, stop_idx, g_entities, t_entities, m) ==
    IF gold_idx >= stop_idx THEN <<-1, -1>>
    ELSE LET ms == matches(t_entities, At(g_entities, gold_idx), m)
         IN  IF Cardinality(ms) > 0 THEN <<gold_idx, Min(ms)>>
             ELSE find_match_from(gold_idx + 1, stop_idx, g_entities, t_entities, m)

\* find_match that looks at every gold entity whatever the gold_set
find_match_AllEntities(g_entities, t_entities, m, gset) ==
    find_match_from(0, Len(g_entities), g_entities, t_entities, m)

find_match(g_entities, t_entities, m, gset) ==
    LET stop_idx == IF gset = "EXTENDED" THEN Len(g_entities) ELSE 1
    IN  find_match_from(0, stop_idx, g_entities, t_entities, m)

-----------------------------------------------------------------------------
(* prune_gold_set *)

\* gs_qids.index(None)
NoneIndex(qids) == Min({i \in 0..(Len(qids) - 1) : At(qids, i) = None})

\* fill_in whose second branch assigns gs_qids[0] only
fill_in_FirstOnly(qids, fill) ==
    IF fill /\ ListIn(None, qids)
    THEN LET none_idx == NoneIndex(qids)
         IN  IF none_idx = 0 /\ At(qids, 1) # None
                 THEN [qids EXCEPT ![1] = At(qids, 1)]
             ELSE IF none_idx = 0 /\ At(qids, 2) # None
                 THEN [qids EXCEPT ![1] = At(qids, 2)]
             ELSE IF none_idx = 1 /\ At(qids, 2) # None
                 THEN [qids EXCEPT ![2] = At(qids, 2)]
             ELSE qids
    ELSE qids

\* the fill-in step: the list as the assignments leave it
fill_in(qids, fill) ==
    IF fill /\ ListIn(None, qids)
    THEN LET none_idx == NoneIndex(qids)
         IN  IF none_idx = 0 /\ At(qids, 1) # None
                 THEN [qids EXCEPT ![1] = At(qids, 1)]
             ELSE IF none_idx = 0 /\ At(qids, 2) # None
                 THEN [qids EXCEPT ![1] = At(qids, 2), ![2] = At(qids, 2)]
             ELSE IF none_idx = 1 /\ At(qids, 2) # None
                 THEN [qids EXCEPT ![2] = At(qids, 2)]
             ELSE qids
    ELSE qids

PruneStop == 3

\* valid_data that drops the rows with a None entity only
valid_data_EntsOnly(ents, qids, gset) ==
    LET stop_idx == IF gset = "EXTENDED" THEN PruneStop ELSE 1
        n == IF stop_idx < Len(ents) THEN stop_idx ELSE Len(ents)
        frame == [k \in 1..n |-> [ents |-> ents[k], qids |-> qids[k]]]
        NotNa(r) == r.ents # None
    IN  SelectSeq(frame, NotNa)

\* valid_data that keeps the first three rows whatever the gold_set
valid_data_AllRows(ents, qids, gset) ==
    LET n == IF PruneStop < Len(ents) THEN PruneStop ELSE Len(ents)
        frame == [k \in 1..n |-> [ents |-> ents[k], qids |-> qids[k]]]
        NotNa(r) == r.ents # None /\ r.qids # None
    IN  SelectSeq(frame, NotNa)

\* pd.DataFrame({'ents': ..., 'qids': ...}).iloc[:stop_idx].dropna()
valid_data(ents, qids, gset) ==
    LET stop_idx == IF gset = "EXTENDED" THEN PruneStop ELSE 1
        n == IF stop_idx < Len(ents) THEN stop_idx ELSE Len(ents)
        frame == [k \in 1..n |-> [ents |-> ents[k], qids |-> qids[k]]]
        NotNa(r) == r.ents # None /\ r.qids # None
    IN  SelectSeq(frame, NotNa)

prune_gold_set(ents, qids, gset, fill) ==
    LET vd == valid_data(ents, fill_in(qids, fill), gset)
    IN  << [k \in DOMAIN vd |-> vd[k].ents], [k \in DOMAIN vd |-> vd[k].qids] >>

-----------------------------------------------------------------------------
(* Arithmetic of the scores: exact fractions *)

RECURSIVE GCD(_, _)
GCD(a, b) == IF b = 0 THEN a ELSE GCD(b, a % b)

ZeroDivisionError == [n |-> 0, d |-> 0]

Frac(n, d) == LET g == GCD(n, d) IN [n |-> n \div g, d |-> d \div g]

Int2Frac(k) == [n |-> k, d |-> 1]

FAdd(x, y) == Frac(x.n * y.d + y.n * x.d, x.d * y.d)

FMul(x, y) == Frac(x.n * y.n, x.d * y.d)

\* x / y
FDiv(x, y) == IF y.n = 0 THEN ZeroDivisionError ELSE Frac(x.n * y.d, x.d * y.n)

\* x > 0
FPos(x) == x.n > 0

\* precision_of with the guard >= 0 in place of > 0
precision_of_GuardGe(tp, fp) ==
    IF (tp + fp) >= 0 THEN FDiv(Int2Frac(tp), Int2Frac(tp + fp)) ELSE Int2Frac(0)

precision_of(tp, fp) ==
    IF (tp + fp) > 0 THEN FDiv(Int2Frac(tp), Int2Frac(tp + fp)) ELSE Int2Frac(0)

recall_of(tp, fn) ==
    IF (tp + fn) > 0 THEN FDiv(Int2Frac(tp), Int2Frac(tp + fn)) ELSE Int2Frac(0)

\* f1_of without the factor 2
f1_of_NoTwo(precision, recall) ==
    IF FPos(FAdd(precision, recall))
    THEN FDiv(FMul(precision, recall), FAdd(precision, recall))
    ELSE Int2Frac(0)

f1_of(precision, recall) ==
    IF FPos(FAdd(precision, recall))
    THEN FDiv(FMul(Int2Frac(2), FMul(precision, recall)), FAdd(precision, recall))
    ELSE Int2Frac(0)

-----------------------------------------------------------------------------
(* calculate_precision_recall_f1 *)

\* selected_rows without the dropna(): rows with a missing QID stay selected
selected_rows_NoDropna(tool, gs_id) ==
    SelectSeq([k \in DOMAIN tool |-> k], LAMBDA k : tool[k].id = gs_id)

\* df_tool[df_tool[id_col] == gs_id][qid_col].dropna().index
selected_rows(tool, gs_id) ==
    SelectSeq([k \in DOMAIN tool |-> k],
              LAMBDA k : tool[k].id = gs_id /\ tool[k].qid # None)

\* start_idx of the slice gs_qids[start_idx:gs_match_idx+1]
start_idx_of(gset, g_match_idx) == IF gset = "EXTENDED" THEN 0 ELSE g_match_idx

\* link_correct with the slice gs_qids[start_idx:] (no upper end)
link_correct_OpenSlice(t_qids, t_match_idx, g_qids, g_match_idx, gset) ==
    ListIn(At(t_qids, t_match_idx),
           SubSeq(g_qids, start_idx_of(gset, g_match_idx) + 1, Len(g_qids)))

\* link_correct that reads the QID of the first selected tool row, not of the
\* matched one
link_correct_FirstRow(t_qids, t_match_idx, g_qids, g_match_idx, gset) ==
    ListIn(At(t_qids, 0),
           SubSeq(g_qids, start_idx_of(gset, g_match_idx) + 1, g_match_idx + 1))

\* tool_qids[tool_match_idx] in gs_qids[start_idx:gs_match_idx+1]
link_correct(t_qids, t_match_idx, g_qids, g_match_idx, gset) ==
    ListIn(At(t_qids, t_match_idx),
           SubSeq(g_qids, start_idx_of(gset, g_match_idx) + 1, g_match_idx + 1))

\* One pass of the loop body over a gold row, up to find_match: the locals it sets.
\* skip is the continue taken on an empty pruned gold set.
loop_body(row, tool, m, gset, fill) ==
    LET pruned == prune_gold_set(row.entity, row.qid, gset, fill)
        sel == selected_rows(tool, row.id)
        t_entities == [k \in DOMAIN sel |-> upper(tool[sel[k]].ent)]
        t_qids == [k \in DOMAIN sel |-> tool[sel[k]].qid]
        fm == find_match(pruned[1], t_entities, m, gset)
    IN  IF Len(pruned[1]) = 0
        THEN [gs_entities |-> pruned[1], gs_qids |-> pruned[2],
              tool_entities |-> <<>>, tool_qids |-> <<>>,
              gs_match_idx |-> -1, tool_match_idx |-> -1, skip |-> TRUE]
        ELSE [gs_entities |-> pruned[1], gs_qids |-> pruned[2],
              tool_entities |-> t_entities, tool_qids |-> t_qids,
              gs_match_idx |-> fm[1], tool_match_idx |-> fm[2], skip |-> FALSE]

\* count with the else of the inner if lost: a correct link is counted TP and FP
count_NoElse(c, g_match_idx, correct) ==
    IF g_match_idx = -1 THEN [c EXCEPT !.FN = @ + 1]
    ELSE IF correct THEN [c EXCEPT !.TP = @ + 1, !.FP = @ + 1]
    ELSE [c EXCEPT !.FP = @ + 1]

\* The counters after the if/else that ends the loop body
count(c, g_match_idx, correct) ==
    IF g_match_idx = -1 THEN [c EXCEPT !.FN = @ + 1]
    ELSE IF correct THEN [c EXCEPT !.TP = @ + 1]
    ELSE [c EXCEPT !.FP = @ + 1]

\* The counters after one pass of the loop body with locals b
counters_after(c, b, gset) ==
    IF b.skip THEN c
    ELSE count(c, b.gs_match_idx,
               link_correct(b.tool_qids, b.tool_match_idx, b.gs_qids,
                            b.gs_match_idx, gset))

-----------------------------------------------------------------------------
(* Inputs *)

A == <<"A">>
AB == <<"A", "B">>
B == <<"B">>

GoldIds == {1}
ToolEnts == {<<"a">>, <<"a", "B">>}
Qids == {Q1, Q2}

\* rows of the tool table: document id, entity (mention), QID (None: no link).
\* Every entity with every QID for the gold rows' document, a row without a link
\* and a row of another document.
ToolRows ==
    [id : GoldIds, ent : ToolEnts, qid : Qids]
        \cup {[id |-> 1, ent |-> <<"a">>, qid |-> None],
              [id |-> 2, ent |-> <<"a">>, qid |-> Q1]}

RECURSIVE SeqsUpTo(_, _)
SeqsUpTo(S, n) ==
    IF n = 0 THEN {<<>>}
    ELSE LET P == SeqsUpTo(S, n - 1)
         IN  P \cup {Append(p, x) : p \in {q \in P : Len(q) = n - 1}, x \in S}

ToolTables == SeqsUpTo(ToolRows, MaxTool)

\* gold rows: the primary, secondary and tertiary entity and QID, each possibly None
GoldEntityLists == {<<e0, e1, None>> : e0 \in {None, A}, e1 \in {None, AB}}
GoldQidLists == {<<q0, q1, q2>> : q0 \in {None, Q1}, q1 \in {None, Q2}, q2 \in {None, Q1}}

GoldRows == [id : GoldIds, entity : GoldEntityLists, qid : GoldQidLists]

NoRow == [id |-> 0, entity |-> <<>>, qid |-> <<>>]
NoCall == [fn |-> "none"]
NoTwin == [TP |-> 0, FP |-> 0, FN |-> 0, none_primary |-> FALSE]
NoLists == [id |-> <<>>, tool_ent |-> <<>>, gold_ent |-> <<>>, q1_gold |-> <<>>,
            q2_pred |-> <<>>]

NoFile == [exists |-> FALSE, lines |-> <<>>]
NoResponse == [received |-> FALSE]

\* nothing matched, no file temp.csv, no request made, no reformatted row
InitAux ==
    /\ matched = NoLists
    /\ temp_csv = NoFile
    /\ http = <<>>
    /\ response = NoResponse
    /\ out_df = <<>>

-----------------------------------------------------------------------------
(* calculate_precision_recall_f1 as a state machine *)

Init ==
    /\ pc = "for"
    /\ call = NoCall
    /\ ret = <<>>
    /\ matching \in {"STRONG", "WEAK"}
    /\ gold_set \in {"PRIMARY", "EXTENDED"}
    /\ fill_in_qids \in BOOLEAN
    /\ df_tool \in ToolTables
    /\ index = 0
    /\ gs_row = NoRow
    /\ gs_entities = <<>> /\ gs_qids = <<>>
    /\ tool_entities = <<>> /\ tool_qids = <<>>
    /\ gs_match_idx = -1 /\ tool_match_idx = -1
    /\ TP = 0 /\ FP = 0 /\ FN = 0
    /\ n_nonempty = 0
    /\ twin = NoTwin
    /\ InitAux

\* for index, gs_row in gs.iterrows(): the next gold row and one pass of the loop body
Iterate ==
    /\ pc = "for"
    /\ index < MaxGold
    /\ \E row \in GoldRows :
         LET b == loop_body(row, df_tool, matching, gold_set, fill_in_qids)
             c == counters_after([TP |-> TP, FP |-> FP, FN |-> FN], b, gold_set)
         IN  /\ gs_row' = row
             /\ gs_entities' = b.gs_entities
             /\ gs_qids' = b.gs_qids
             /\ tool_entities' = b.tool_entities
             /\ tool_qids' = b.tool_qids
             /\ gs_match_idx' = b.gs_match_idx
             /\ tool_match_idx' = b.tool_match_idx
             /\ TP' = c.TP /\ FP' = c.FP /\ FN' = c.FN
             /\ n_nonempty' = n_nonempty + (IF Len(b.gs_entities) > 0 THEN 1 ELSE 0)
    /\ index' = index + 1
    /\ pc' = "body"
    /\ UNCHANGED <<call, ret, matching, gold_set, fill_in_qids, df_tool, twin, auxVars>>

\* control is back at the for statement: the locals of the pass are dead (each is
\* assigned again before it is read), only the counters carry over
EndOfBody ==
    /\ pc = "body"
    /\ pc' = "for"
    /\ gs_row' = NoRow
    /\ gs_entities' = <<>> /\ gs_qids' = <<>>
    /\ tool_entities' = <<>> /\ tool_qids' = <<>>
    /\ gs_match_idx' = -1 /\ tool_match_idx' = -1
    /\ UNCHANGED <<call, ret, matching, gold_set, fill_in_qids, df_tool, index,
                   TP, FP, FN, n_nonempty, twin, auxVars>>

\* the rows are exhausted: the scores are computed and returned
Return ==
    /\ pc = "for"
    /\ LET precision == precision_of(TP, FP)
           recall == recall_of(TP, FN)
           f1_score == f1_of(precision, recall)
       IN  IF precision = ZeroDivisionError \/ recall = ZeroDivisionError
              \/ f1_score = ZeroDivisionError
           THEN pc' = "raised" /\ ret' = <<>>
           ELSE pc' = "done" /\ ret' = <<precision, recall, f1_score>>
    /\ UNCHANGED <<call, matching, gold_set, fill_in_qids, df_tool, index, gs_row,
                   gs_entities, gs_qids, tool_entities, tool_qids, gs_match_idx,
                   tool_match_idx, TP, FP, FN, n_nonempty, twin, auxVars>>

Next == Iterate \/ EndOfBody \/ Return

Spec == Init /\ [][Next]_vars

-----------------------------------------------------------------------------
(* The twin run: the same call over the gold table whose secondary and tertiary    *)
(* entities and QIDs are blanked. Two gold tables that differ only in positions 1  *)
(* and 2 have the same twin, so they give the same counters when each gives the    *)
(* counters of its twin.                                                           *)

Blank(row) ==
    [row EXCEPT !.entity = <<row.entity[1], None, None>>,
                !.qid = <<row.qid[1], None, None>>]

InitTwin ==
    /\ Init
    /\ gold_set = "PRIMARY"

IterateTwin ==
    /\ pc = "for"
    /\ index < MaxGold
    /\ \E row \in GoldRows :
         LET b == loop_body(row, df_tool, matching, gold_set, fill_in_qids)
             c == counters_after([TP |-> TP, FP |-> FP, FN |-> FN], b, gold_set)
             b2 == loop_body(Blank(row), df_tool, matching, gold_set, fill_in_qids)
             c2 == counters_after([TP |-> twin.TP, FP |-> twin.FP, FN |-> twin.FN],
                                  b2, gold_set)
         IN  /\ gs_row' = row
             /\ gs_entities' = b.gs_entities
             /\ gs_qids' = b.gs_qids
             /\ tool_entities' = b.tool_entities
             /\ tool_qids' = b.tool_qids
             /\ gs_match_idx' = b.gs_match_idx
             /\ tool_match_idx' = b.tool_match_idx
             /\ TP' = c.TP /\ FP' = c.FP /\ FN' = c.FN
             /\ n_nonempty' = n_nonempty + (IF Len(b.gs_entities) > 0 THEN 1 ELSE 0)
             /\ twin' = [TP |-> c2.TP, FP |-> c2.FP, FN |-> c2.FN,
                         none_primary |-> twin.none_primary \/ row.qid[1] = None]
    /\ index' = index + 1
    /\ pc' = "body"
    /\ UNCHANGED <<call, ret, matching, gold_set, fill_in_qids, df_tool, auxVars>>

NextTwin == IterateTwin \/ EndOfBody \/ Return

SpecTwin == InitTwin /\ [][NextTwin]_vars

-----------------------------------------------------------------------------
(* calculate_precision_recall_f1 over a gold table gs given as a whole *)

\* gold rows: one with a primary pair, one without any pair, one with two pairs
PassRows ==
    {[id |-> 1, entity |-> <<A, None, None>>, qid |-> <<Q1, None, None>>],
     [id |-> 1, entity |-> <<None, None, None>>, qid |-> <<None, None, None>>],
     [id |-> 1, entity |-> <<A, AB, None>>, qid |-> <<Q2, Q2, None>>]}

PassTools ==
    {<<>>,
     <<[id |-> 1, ent |-> <<"a">>, qid |-> Q1]>>,
     <<[id |-> 1, ent |-> <<"a", "B">>, qid |-> Q2],
       [id |-> 1, ent |-> <<"a">>, qid |-> Q2]>>}

InitPass ==
    /\ pc = "for"
    /\ call \in [fn : {"calculate_precision_recall_f1"},
                 gs : SeqsUpTo(PassRows, MaxGold)]
    /\ ret = <<>>
    /\ matching \in {"STRONG", "WEAK"}
    /\ gold_set \in {"PRIMARY", "EXTENDED"}
    /\ fill_in_qids \in BOOLEAN
    /\ df_tool \in PassTools
    /\ index = 0
    /\ gs_row = NoRow
    /\ gs_entities = <<>> /\ gs_qids = <<>>
    /\ tool_entities = <<>> /\ tool_qids = <<>>
    /\ gs_match_idx = -1 /\ tool_match_idx = -1
    /\ TP = 0 /\ FP = 0 /\ FN = 0
    /\ n_nonempty = 0
    /\ twin = NoTwin
    /\ InitAux

\* iterrows that yields the rows from the last to the first
iterrows_Reversed(gs, n) == gs[Len(gs) - n]

\* gs.iterrows(): the row yielded after n rows
iterrows(gs, n) == gs[n + 1]

IteratePass ==
    /\ pc = "for"
    /\ index < Len(call.gs)
    /\ LET row == iterrows(call.gs, index)
           b == loop_body(row, df_tool, matching, gold_set, fill_in_qids)
           c == counters_after([TP |-> TP, FP |-> FP, FN |-> FN], b, gold_set)
       IN  /\ gs_row' = row
           /\ gs_entities' = b.gs_entities
           /\ gs_qids' = b.gs_qids
           /\ tool_entities' = b.tool_entities
           /\ tool_qids' = b.tool_qids
           /\ gs_match_idx' = b.gs_match_idx
           /\ tool_match_idx' = b.tool_match_idx
           /\ TP' = c.TP /\ FP' = c.FP /\ FN' = c.FN
           /\ n_nonempty' = n_nonempty + (IF Len(b.gs_entities) > 0 THEN 1 ELSE 0)
    /\ index' = index + 1
    /\ pc' = "body"
    /\ UNCHANGED <<call, ret, matching, gold_set, fill_in_qids, df_tool, twin, auxVars>>

\* iterrows is exhausted: the statements after the loop
ReturnPass ==
    /\ index = Len(call.gs)
    /\ Return

NextPass == IteratePass \/ EndOfBody \/ ReturnPass

SpecPass == InitPass /\ [][NextPass]_vars

\* the call on the gold tables of one row, with every gold row and every tool table
InitRow ==
    /\ pc = "for"
    /\ call \in [fn : {"calculate_precision_recall_f1"},
                 gs : {<<row>> : row \in GoldRows}]
    /\ ret = <<>>
    /\ matching \in {"STRONG", "WEAK"}
    /\ gold_set \in {"PRIMARY", "EXTENDED"}
    /\ fill_in_qids \in BOOLEAN
    /\ df_tool \in ToolTables
    /\ index = 0
    /\ gs_row = NoRow
    /\ gs_entities = <<>> /\ gs_qids = <<>>
    /\ tool_entities = <<>> /\ tool_qids = <<>>
    /\ gs_match_idx = -1 /\ tool_match_idx = -1
    /\ TP = 0 /\ FP = 0 /\ FN = 0
    /\ n_nonempty = 0
    /\ twin = NoTwin
    /\ InitAux

SpecRow == InitRow /\ [][NextPass]_vars

-----------------------------------------------------------------------------
(* match_gold_pred: the loop of calculate_precision_recall_f1 that, in place of    *)
(* counting, collects the matched pairs                                            *)

\* append_match that files the tool's QID under q1_gold and the gold QID under
\* q2_pred
append_match_SwapQids(lists, gs_id, b) ==
    IF b.skip \/ b.gs_match_idx = -1 THEN lists
    ELSE [id |-> Append(lists.id, gs_id),
          gold_ent |-> Append(lists.gold_ent, At(b.gs_entities, b.gs_match_idx)),
          tool_ent |-> Append(lists.tool_ent, At(b.tool_entities, b.tool_match_idx)),
          q1_gold |-> Append(lists.q1_gold, At(b.tool_qids, b.tool_match_idx)),
          q2_pred |-> Append(lists.q2_pred, At(b.gs_qids, b.gs_match_idx))]

\* the five lists after a pass with locals b: the two continue statements, then the
\* five appends
append_match(lists, gs_id, b) ==
    IF b.skip \/ b.gs_match_idx = -1 THEN lists
    ELSE [id |-> Append(lists.id, gs_id),
          gold_ent |-> Append(lists.gold_ent, At(b.gs_entities, b.gs_match_idx)),
          tool_ent |-> Append(lists.tool_ent, At(b.tool_entities, b.tool_match_idx)),
          q1_gold |-> Append(lists.q1_gold, At(b.gs_qids, b.gs_match_idx)),
          q2_pred |-> Append(lists.q2_pred, At(b.tool_qids, b.tool_match_idx))]

IterateMatch ==
    /\ pc = "for"
    /\ index < MaxGold
    /\ \E row \in GoldRows :
         LET b == loop_body(row, df_tool, matching, gold_set, fill_in_qids)
         IN  /\ gs_row' = row
             /\ gs_entities' = b.gs_entities
             /\ gs_qids' = b.gs_qids
             /\ tool_entities' = b.tool_entities
             /\ tool_qids' = b.tool_qids
             /\ gs_match_idx' = b.gs_match_idx
             /\ tool_match_idx' = b.tool_match_idx
             /\ matched' = append_match(matched, row.id, b)
    /\ index' = index + 1
    /\ pc' = "body"
    /\ UNCHANGED <<call, ret, matching, gold_set, fill_in_qids, df_tool, TP, FP, FN,
                   n_nonempty, twin, temp_csv, http, response, out_df>>

\* return id, tool_ent, gold_ent, q1_gold, q2_pred
ReturnMatch ==
    /\ pc = "for"
    /\ ret' = <<matched.id, matched.tool_ent, matched.gold_ent, matched.q1_gold,
                matched.q2_pred>>
    /\ pc' = "done"
    /\ UNCHANGED <<call, matching, gold_set, fill_in_qids, df_tool, index, gs_row,
                   gs_entities, gs_qids, tool_entities, tool_qids, gs_match_idx,
                   tool_match_idx, TP, FP, FN, n_nonempty, twin, auxVars>>

NextMatch == IterateMatch \/ EndOfBody \/ ReturnMatch

SpecMatch == Init /\ [][NextMatch]_vars

-----------------------------------------------------------------------------
(* calculate_class_jc: the matched pairs are written to temp.csv, sent to the       *)
(* similarity API and scored with its answer                                       *)

\* match_gold_pred over the gold table gs from its k-th row on
RECURSIVE match_gold_pred_from(_, _, _, _, _, _, _)
match_gold_pred_from(gs, k, lists, tool, m, gset, fill) ==
    IF k > Len(gs) THEN lists
    ELSE match_gold_pred_from(gs, k + 1,
                              append_match(lists, gs[k].id,
                                           loop_body(gs[k], tool, m, gset, fill)),
                              tool, m, gset, fill)

match_gold_pred(gs, tool, m, gset, fill) ==
    match_gold_pred_from(gs, 1, NoLists, tool, m, gset, fill)

\* the header q1<TAB>q2 of temp.csv
Header == << <<"q", "1">>, <<"q", "2">> >>

\* make_temp: temp.csv holds the header and one line q1<TAB>q2 per pair
make_temp(q1_gold, q2_pred) ==
    [exists |-> TRUE,
     lines |-> <<Header>> \o [i \in DOMAIN q1_gold |-> <<q1_gold[i], q2_pred[i]>>]]

\* a file temp.csv left by an earlier call
StaleFile == [exists |-> TRUE, lines |-> <<Header, <<Q2, Q2>> >>]

\* pandas' NaN: a missing score, the mean of no score
NaN == [n |-> 1, d |-> 0]

\* answers of the similarity API: rows q1, q2 with their class and jc scores
ScoreRow(q1, q2, c, j) == [q1 |-> q1, q2 |-> q2, class |-> c, jc |-> j]

ScoreTables ==
    {<<ScoreRow(Q2, Q2, NaN, NaN)>>,
     <<ScoreRow(Q1, Q1, Int2Frac(1), Int2Frac(1))>>,
     <<ScoreRow(Q2, Q1, Frac(1, 2), Frac(1, 4)), ScoreRow(Q1, Q1, Int2Frac(1), NaN),
       ScoreRow(Q2, Q2, Int2Frac(1), Int2Frac(1)), ScoreRow(Q2, Q1, Int2Frac(0), NaN)>>}

\* retrieve_score_vals(i, col, score_df, eval_df), i from 1
retrieve_score_vals(i, col, score_df, lists) ==
    LET rows == SelectSeq(score_df, LAMBDA r : /\ r.q1 = lists.q1_gold[i]
                                                /\ r.q2 = lists.q2_pred[i])
    IN  IF Len(rows) > 0 THEN rows[1][col] ELSE NaN

FLeq(x, y) == x.n * y.d <= y.n * x.d

RECURSIVE FSum(_, _)
FSum(f, I) ==
    IF I = {} THEN Int2Frac(0)
    ELSE LET i == CHOOSE j \in I : TRUE IN FAdd(f[i], FSum(f, I \ {i}))

\* get_class_score (col = "class") and get_jc_score (col = "jc"): for every document
\* id and predicted entity the first row with the highest score is kept; the mean
\* of the kept scores
get_score(col, score_df, lists) ==
    LET n == Len(lists.id)
        val == [i \in 1..n |-> retrieve_score_vals(i, col, score_df, lists)]
        rows(i) == {j \in 1..n : /\ lists.id[j] = lists.id[i]
                                 /\ lists.tool_ent[j] = lists.tool_ent[i]}
        scored(i) == {j \in rows(i) : val[j] # NaN}
        best(i) == \A j \in scored(i) : FLeq(val[j], val[i])
        rows_to_keep == {i \in 1..n : /\ i \in scored(i)
                                      /\ best(i)
                                      /\ \A j \in scored(i) : best(j) => i <= j}
    IN  IF rows_to_keep = {} THEN NaN
        ELSE FDiv(FSum(val, rows_to_keep), Int2Frac(Cardinality(rows_to_keep)))

get_class_score(score_df, lists) == get_score("class", score_df, lists)

get_jc_score(score_df, lists) == get_score("jc", score_df, lists)

\* the statements of calculate_class_jc with os.remove before the API call
next_step_RemoveFirst(step) ==
    CASE step = "match" -> "make_temp"
      [] step = "make_temp" -> "remove"
      [] step = "remove" -> "post"
      [] step = "post" -> "scores"
      [] step = "scores" -> "done"

\* the statement that follows each statement of calculate_class_jc
next_step(step) ==
    CASE step = "match" -> "make_temp"
      [] step = "make_temp" -> "post"
      [] step = "post" -> "remove"
      [] step = "remove" -> "scores"
      [] step = "scores" -> "done"

InitClassJc ==
    /\ pc = "match"
    /\ call \in [fn : {"calculate_class_jc"}, gold_df : SeqsUpTo(PassRows, MaxGold)]
    /\ ret = <<>>
    /\ matching \in {"STRONG", "WEAK"}
    /\ gold_set \in {"PRIMARY", "EXTENDED"}
    /\ fill_in_qids \in BOOLEAN
    /\ df_tool \in PassTools
    /\ index = 0
    /\ gs_row = NoRow
    /\ gs_entities = <<>> /\ gs_qids = <<>>
    /\ tool_entities = <<>> /\ tool_qids = <<>>
    /\ gs_match_idx = -1 /\ tool_match_idx = -1
    /\ TP = 0 /\ FP = 0 /\ FN = 0
    /\ n_nonempty = 0
    /\ twin = NoTwin
    /\ matched = NoLists
    /\ temp_csv \in {NoFile, StaleFile}
    /\ http = <<>>
    /\ response = NoResponse
    /\ out_df = <<>>

\* the variables that no statement of calculate_class_jc assigns
classJcUnused == <<call, matching, gold_set, fill_in_qids, df_tool, index, gs_row,
                   gs_entities, gs_qids, tool_entities, tool_qids, gs_match_idx,
                   tool_match_idx, TP, FP, FN, n_nonempty, twin, out_df>>

\* id, tool_ent, gold_ent, q1_gold, q2_pred = match_gold_pred(...)
ClassJcMatch ==
    /\ pc = "match"
    /\ matched' = match_gold_pred(call.gold_df, df_tool, matching, gold_set,
                                  fill_in_qids)
    /\ pc' = next_step("match")
    /\ UNCHANGED <<ret, temp_csv, http, response, classJcUnused>>

\* make_temp(q1_gold, q2_pred): to_csv writes temp.csv, over a file that exists
ClassJcMakeTemp ==
    /\ pc = "make_temp"
    /\ temp_csv' = make_temp(matched.q1_gold, matched.q2_pred)
    /\ pc' = next_step("make_temp")
    /\ UNCHANGED <<ret, matched, http, response, classJcUnused>>

\* call_semantic_similarity: open('temp.csv') raises when there is no such file,
\* else the file is posted
ClassJcPost ==
    /\ pc = "post"
    /\ IF temp_csv.exists
       THEN /\ http' = Append(http, [method |-> "POST", file |-> temp_csv.lines])
            /\ pc' = "wait"
       ELSE /\ http' = http
            /\ pc' = "raised"
    /\ UNCHANGED <<ret, matched, temp_csv, response, classJcUnused>>

\* the API answers and the answer parses: score_df
ClassJcResponse ==
    /\ pc = "wait"
    /\ \E score_df \in ScoreTables :
          response' = [received |-> TRUE, score_df |-> score_df]
    /\ pc' = next_step("post")
    /\ UNCHANGED <<ret, matched, temp_csv, http, classJcUnused>>

\* requests.post or json.loads raises: the exception leaves calculate_class_jc
ClassJcPostRaises ==
    /\ pc = "wait"
    /\ pc' = "raised"
    /\ UNCHANGED <<ret, matched, temp_csv, http, response, classJcUnused>>

\* os.remove('temp.csv'): raises when there is no such file
ClassJcRemove ==
    /\ pc = "remove"
    /\ IF temp_csv.exists
       THEN /\ temp_csv' = NoFile
            /\ pc' = next_step("remove")
       ELSE /\ temp_csv' = temp_csv
            /\ pc' = "raised"
    /\ UNCHANGED <<ret, matched, http, response, classJcUnused>>

\* class_score, jc_score and the return
ClassJcScores ==
    /\ pc = "scores"
    /\ ret' = <<get_class_score(response.score_df, matched),
                get_jc_score(response.score_df, matched)>>
    /\ pc' = next_step("scores")
    /\ UNCHANGED <<matched, temp_csv, http, response, classJcUnused>>

NextClassJc ==
    \/ ClassJcMatch
    \/ ClassJcMakeTemp
    \/ ClassJcPost
    \/ ClassJcResponse
    \/ ClassJcPostRaises
    \/ ClassJcRemove
    \/ ClassJcScores

SpecClassJc == InitClassJc /\ [][NextClassJc]_vars

-----------------------------------------------------------------------------
(* The helper functions called on their own *)

\* the variables of calculate_precision_recall_f1, unused by a helper's call
mainVars == <<matching, gold_set, fill_in_qids, df_tool, index, gs_row, gs_entities,
              tool_entities, tool_qids, gs_match_idx, tool_match_idx, TP, FP, FN,
              n_nonempty, twin>>

InitHelper ==
    /\ pc = "call"
    /\ ret = <<>>
    /\ matching = "" /\ gold_set = "" /\ fill_in_qids = FALSE
    /\ df_tool = <<>>
    /\ index = 0
    /\ gs_row = NoRow
    /\ gs_entities = <<>> /\ gs_qids = <<>>
    /\ tool_entities = <<>> /\ tool_qids = <<>>
    /\ gs_match_idx = -1 /\ tool_match_idx = -1
    /\ TP = 0 /\ FP = 0 /\ FN = 0
    /\ n_nonempty = 0
    /\ twin = NoTwin
    /\ InitAux

Matchings == {"STRONG", "WEAK"}

\* is_match(ent1, ent2, matching)
InitIsMatch ==
    /\ InitHelper
    /\ call \in [fn : {"is_match"}, ent1 : Strings \cup {None},
                 ent2 : Strings \cup {None}, matching : Matchings]

CallIsMatch ==
    /\ pc = "call" /\ call.fn = "is_match"
    /\ ret' = is_match(call.ent1, call.ent2, call.matching)
    /\ pc' = "return"
    /\ UNCHANGED <<call, gs_qids, mainVars, auxVars>>

SpecIsMatch == InitIsMatch /\ [][CallIsMatch]_vars

\* find_match(gs_entities, tool_entities, matching, gold_set); its callers pass a
\* non-empty gs_entities
EntityNames == {A, AB, B}

InitFindMatch ==
    /\ InitHelper
    /\ call \in [fn : {"find_match"},
                 gs_entities : SeqsUpTo(EntityNames, MaxEnts) \ {<<>>},
                 tool_entities : SeqsUpTo(EntityNames, MaxEnts),
                 matching : Matchings, gold_set : {"PRIMARY", "EXTENDED"}]

CallFindMatch ==
    /\ pc = "call" /\ call.fn = "find_match"
    /\ ret' = find_match(call.gs_entities, call.tool_entities, call.matching,
                         call.gold_set)
    /\ pc' = "return"
    /\ UNCHANGED <<call, gs_qids, mainVars, auxVars>>

SpecFindMatch == InitFindMatch /\ [][CallFindMatch]_vars

\* prune_gold_set(gs_entities, gs_qids, gold_set, fill_in_qids) on 3-element lists;
\* gs_qids is the caller's list, which the fill-in step assigns in place
InitPrune ==
    /\ InitHelper
    /\ call \in [fn : {"prune_gold_set"},
                 gs_entities : [1..PruneStop -> {None, A, AB}],
                 gs_qids : [1..PruneStop -> {None, Q1, Q2}],
                 gold_set : {"PRIMARY", "EXTENDED", "OTHER"},
                 fill_in_qids : BOOLEAN]

CallPrune ==
    /\ pc = "call" /\ call.fn = "prune_gold_set"
    /\ ret' = prune_gold_set(call.gs_entities, call.gs_qids, call.gold_set,
                             call.fill_in_qids)
    /\ gs_qids' = fill_in(call.gs_qids, call.fill_in_qids)
    /\ pc' = "return"
    /\ UNCHANGED <<call, mainVars, auxVars>>

SpecPrune == InitPrune /\ [][CallPrune]_vars

-----------------------------------------------------------------------------
(* re/UniRel/unirel_reformat.ipynb: the loop that flattens the UniRel results      *)

\* the variables of calculate_precision_recall_f1 hold nothing in the other programs
MainUnused ==
    /\ matching = "" /\ gold_set = "" /\ fill_in_qids = FALSE
    /\ df_tool = <<>>
    /\ gs_row = NoRow
    /\ gs_entities = <<>> /\ gs_qids = <<>>
    /\ tool_entities = <<>> /\ tool_qids = <<>>
    /\ gs_match_idx = -1 /\ tool_match_idx = -1
    /\ TP = 0 /\ FP = 0 /\ FN = 0
    /\ n_nonempty = 0
    /\ twin = NoTwin

\* (head, relation, tail)
T1 == <<"h1", "r1", "t1">>
T2 == <<"h2", "r2", "t2">>
TripleLists == {<<>>, <<T1>>, <<T2, T1>>, <<T1, T2, T1>>}

\* values of a c119_output cell: a list of lists of triples, of which UniRel fills
\* the first
Outputs == {<<l>> : l \in TripleLists} \cup {<<<<>>, <<T1>>>>, <<<<T2>>, <<>>>>}

\* The text of a list of lists of triples, as a sequence of tokens: brackets and
\* triples (the commas are left out)
RECURSIVE repr_from(_, _)
repr_from(v, k) ==
    IF k > Len(v) THEN <<>>
    ELSE << <<"[">> >> \o v[k] \o << <<"]">> >> \o repr_from(v, k + 1)

repr(v) == << <<"[">> >> \o repr_from(v, 1) \o << <<"]">> >>

\* ast.literal_eval on such a text: reads the tokens between the outer brackets,
\* opening an inner list at a "[" and closing it at a "]"
RECURSIVE literal_eval_from(_, _, _, _)
literal_eval_from(text, i, cur, acc) ==
    IF i >= Len(text) THEN acc
    ELSE IF text[i] = <<"[">> THEN literal_eval_from(text, i + 1, <<>>, acc)
    ELSE IF text[i] = <<"]">> THEN literal_eval_from(text, i + 1, <<>>, Append(acc, cur))
    ELSE literal_eval_from(text, i + 1, Append(cur, text[i]), acc)

literal_eval(text) == literal_eval_from(text, 2, <<>>, <<>>)

\* rows of result_df: the document id c5, the input sentence c119 and UniRel's
\* output c119_output, a text
ResultRows ==
    {[c5 |-> 1, c119 |-> "s1", c119_output |-> repr(v)] : v \in Outputs}
        \cup {[c5 |-> 2, c119 |-> "s2", c119_output |-> repr(v)] : v \in Outputs}

\* reformat_rows that writes no row for an empty list of triples
reformat_rows_DropEmpty(row) ==
    LET output == literal_eval(row.c119_output)[1]
    IN  [t \in DOMAIN output |->
            [c5_id |-> row.c5, c119_input |-> row.c119,
             c119_output |-> row.c119_output,
             head |-> output[t][1], relation |-> output[t][2], tail |-> output[t][3]]]

\* the rows that one pass of the loop appends to out_df
reformat_rows(row) ==
    LET output == literal_eval(row.c119_output)[1]
    IN  IF Len(output) = 0
        THEN << [c5_id |-> row.c5, c119_input |-> row.c119,
                 c119_output |-> row.c119_output,
                 head |-> None, relation |-> None, tail |-> None] >>
        ELSE [t \in DOMAIN output |->
                [c5_id |-> row.c5, c119_input |-> row.c119,
                 c119_output |-> row.c119_output,
                 head |-> output[t][1], relation |-> output[t][2],
                 tail |-> output[t][3]]]

InitReformat ==
    /\ pc = "for"
    /\ call \in [fn : {"reformat"}, result_df : SeqsUpTo(ResultRows, MaxRows)]
    /\ ret = <<>>
    /\ index = 0
    /\ MainUnused
    /\ InitAux

\* for i in range(len(result_df)): one pass, with its inner loop over the triples
ReformatRow ==
    /\ pc = "for"
    /\ index < Len(call.result_df)
    /\ out_df' = out_df \o reformat_rows(call.result_df[index + 1])
    /\ index' = index + 1
    /\ UNCHANGED <<pc, call, ret, matching, gold_set, fill_in_qids, df_tool, gs_row,
                   gs_entities, gs_qids, tool_entities, tool_qids, gs_match_idx,
                   tool_match_idx, TP, FP, FN, n_nonempty, twin, matched, temp_csv,
                   http, response>>

\* range(len(result_df)) is exhausted
ReformatEnd ==
    /\ pc = "for"
    /\ index = Len(call.result_df)
    /\ pc' = "done"
    /\ UNCHANGED <<call, ret, matching, gold_set, fill_in_qids, df_tool, index, gs_row,
                   gs_entities, gs_qids, tool_entities, tool_qids, gs_match_idx,
                   tool_match_idx, TP, FP, FN, n_nonempty, twin, auxVars>>

NextReformat == ReformatRow \/ ReformatEnd

SpecReformat == InitReformat /\ [][NextReformat]_vars

-----------------------------------------------------------------------------
(* get_wikidata_description *)

\* a binding of the SPARQL result with description d
Binding(d) == [itemDescription |-> [value |-> d]]

\* JSON bodies of a response: the object may lack the key "results", and "results"
\* the key "bindings"
Bodies ==
    {[has_results |-> FALSE, has_bindings |-> FALSE, bindings |-> <<>>],
     [has_results |-> TRUE, has_bindings |-> FALSE, bindings |-> <<>>]}
        \cup [has_results : {TRUE}, has_bindings : {TRUE},
              bindings : {<<>>, <<Binding("d1")>>, <<Binding("d1"), Binding("d2")>>,
                          <<Binding("d2"), Binding("d1")>>}]

Responses == [status_code : {200, 400, 404, 429, 500}, json : Bodies]

\* data.get("results", {}).get("bindings", [])
get_bindings(data) ==
    IF data.has_results /\ data.has_bindings THEN data.bindings ELSE <<>>

\* wikidata_result that reads the body whatever the status
wikidata_result_NoStatusCheck(resp) ==
    LET descriptions == get_bindings(resp.json)
    IN  IF Len(descriptions) > 0 THEN descriptions[1].itemDescription.value
        ELSE "No description found."

\* the value returned for the response resp
wikidata_result(resp) ==
    IF resp.status_code = 200
    THEN LET descriptions == get_bindings(resp.json)
         IN  IF Len(descriptions) > 0 THEN descriptions[1].itemDescription.value
             ELSE "No description found."
    ELSE "Failed to fetch data."

InitWikidata ==
    /\ pc = "call"
    /\ call \in [fn : {"get_wikidata_description"}, qid : Qids]
    /\ ret = <<>>
    /\ index = 0
    /\ MainUnused
    /\ InitAux

WikidataRequest == [method |-> "GET", url |-> "https://query.wikidata.org/sparql",
                    qid |-> call.qid]

\* requests.get completes with a response
WikidataGet ==
    /\ pc = "call" /\ call.fn = "get_wikidata_description"
    /\ http' = Append(http, WikidataRequest)
    /\ \E resp \in Responses : response' = resp
    /\ pc' = "response"
    /\ UNCHANGED <<call, ret, gs_qids, mainVars, matched, temp_csv, out_df>>

\* requests.get raises (no connection, timeout): the exception leaves the function
WikidataGetRaises ==
    /\ pc = "call" /\ call.fn = "get_wikidata_description"
    /\ http' = Append(http, WikidataRequest)
    /\ pc' = "raised"
    /\ UNCHANGED <<call, ret, gs_qids, mainVars, matched, temp_csv, response, out_df>>

\* the if/else on the response, up to the return
WikidataReturn ==
    /\ pc = "response"
    /\ ret' = wikidata_result(response)
    /\ pc' = "return"
    /\ UNCHANGED <<call, gs_qids, mainVars, auxVars>>

NextWikidata == WikidataGet \/ WikidataGetRaises \/ WikidataReturn

SpecWikidata == InitWikidata /\ [][NextWikidata]_vars

-----------------------------------------------------------------------------
(* Properties of calculate_precision_recall_f1 *)

\* a pass of the loop body has just run
Pass == pc = "for" /\ pc' = "body"

\* C1: a gold row with a non-empty pruned gold set increments exactly one of TP, FP,
\* FN by exactly one, a gold row with an empty pruned set changes none of them, and
\* TP + FP + FN is the number of gold rows with a non-empty pruned set.
C1_CountersConsistent ==
    [][/\ Pass /\ Len(gs_entities') > 0 =>
            \/ TP' = TP + 1 /\ FP' = FP /\ FN' = FN
            \/ TP' = TP /\ FP' = FP + 1 /\ FN' = FN
            \/ TP' = TP /\ FP' = FP /\ FN' = FN + 1
       /\ Pass /\ Len(gs_entities') = 0 => TP' = TP /\ FP' = FP /\ FN' = FN
       /\ TP' + FP' + FN' = n_nonempty']_vars

C1_Witness ==
    pc = "done" /\ index = 2 /\ n_nonempty = 1 /\ TP = 1

\* C2: precision is TP/(TP+FP) when TP+FP > 0 and 0 otherwise, recall is TP/(TP+FN)
\* when TP+FN > 0 and 0 otherwise, and no input raises a division by zero.
C2_PrecisionRecall ==
    /\ pc # "raised"
    /\ pc = "done" =>
         /\ ret[1].d > 0 /\ ret[2].d > 0
         /\ IF TP + FP > 0 THEN ret[1].n * (TP + FP) = TP * ret[1].d ELSE ret[1].n = 0
         /\ IF TP + FN > 0 THEN ret[2].n * (TP + FN) = TP * ret[2].d ELSE ret[2].n = 0

\* an empty tool table: every gold row is missing
C2_Witness ==
    pc = "done" /\ df_tool = <<>> /\ TP + FP = 0 /\ FN = 2

\* C3: F1 is 2*precision*recall/(precision+recall) when precision+recall > 0 and 0
\* otherwise: F1*(2*TP+FP+FN) = 2*TP when TP > 0, and F1 = 0 when TP = 0.
C3_F1 ==
    pc = "done" =>
        LET p == ret[1]
            r == ret[2]
            f == ret[3]
        IN  /\ f.d > 0
            /\ IF p.n * r.d + r.n * p.d > 0
               THEN f.n * (p.n * r.d + r.n * p.d) = 2 * p.n * r.n * f.d
               ELSE f.n = 0
            /\ TP > 0 => f.n * (2 * TP + FP + FN) = 2 * TP * f.d
            /\ TP = 0 => f.n = 0

C3_Witness ==
    pc = "done" /\ TP = 1 /\ FP = 1 /\ FN = 0 /\ ret[3] = [n |-> 2, d |-> 3]

\* C4: with STRONG matching, a tool row of the gold row's document whose upper-cased
\* entity equals the gold (primary) entity and whose QID equals that entity's QID
\* makes the gold row a true positive, whatever else the tool produced.
C4_StrongExactPairIsTP ==
    [][(/\ Pass
        /\ matching = "STRONG"
        /\ \E k \in DOMAIN df_tool :
              /\ df_tool[k].id = gs_row'.id
              /\ upper(df_tool[k].ent) = gs_row'.entity[1]
              /\ df_tool[k].qid = gs_row'.qid[1]
              /\ df_tool[k].qid # None)
       => TP' = TP + 1]_vars

\* the matched tool row's QID is an accepted gold QID: one of the pruned gold QIDs
\* at positions 0..g under EXTENDED, the one at position g otherwise
C7_Accepted ==
    LET g == gs_match_idx
        q == At(tool_qids, tool_match_idx)
    IN  IF gold_set = "EXTENDED" THEN \E k \in 0..g : At(gs_qids, k) = q
        ELSE At(gs_qids, g) = q

\* C7: the matched tool row's QID is counted TP exactly when it is one of the pruned
\* gold QIDs at positions 0..g (EXTENDED) or the one at position g (PRIMARY), g the
\* matched gold position, and FP otherwise.
C7_LinkCorrectness ==
    [][Pass /\ gs_match_idx' # -1 =>
         /\ C7_Accepted' => TP' = TP + 1 /\ FP' = FP /\ FN' = FN
         /\ ~C7_Accepted' => TP' = TP /\ FP' = FP + 1 /\ FN' = FN]_vars

\* the tool's QID is only that of a less primary gold entry than the matched one
C7_Witness ==
    /\ pc = "body" /\ gold_set = "EXTENDED" /\ index = 1
    /\ gs_match_idx = 0 /\ Len(gs_qids) >= 2
    /\ At(tool_qids, tool_match_idx) = At(gs_qids, 1)
    /\ At(tool_qids, tool_match_idx) # At(gs_qids, 0)
    /\ FP = 1 /\ TP = 0

\* the counters before a pass
Counters == [TP |-> TP, FP |-> FP, FN |-> FN]

\* the rows of the tool table of document gs_id that carry a QID
C11_Matchable(tool, gs_id) ==
    SelectSeq(tool, LAMBDA r : r.id = gs_id /\ r.qid # None)

\* tool row r matches no considered entity of the pruned gold entities g_entities:
\* all of them under EXTENDED, the first one otherwise
NoConsideredMatch(r, g_entities, m, gset) ==
    \A g \in DOMAIN g_entities :
        (gset = "EXTENDED" \/ g = 1) => is_match(upper(r.ent), g_entities[g], m) # TRUE

\* C11: only tool rows of the gold row's document that carry a QID can be matched:
\* the pass over a gold row counts as it does over the tool table without the rows
\* of other documents and the rows with a missing QID, no selected QID is None, and
\* a gold row whose considered entities are matched, within its document, only by
\* rows with a missing QID is counted FN.
C11_OnlyDocRowsWithQid ==
    [][Pass =>
         LET row == gs_row'
             b == loop_body(row, C11_Matchable(df_tool, row.id), matching, gold_set,
                            fill_in_qids)
             c == counters_after(Counters, b, gold_set)
         IN  /\ TP' = c.TP /\ FP' = c.FP /\ FN' = c.FN
             /\ \A k \in DOMAIN tool_qids' : tool_qids'[k] # None
             /\ Len(gs_entities') > 0 =>
                  Len(tool_entities') = Len(C11_Matchable(df_tool, row.id))
             /\ (/\ Len(gs_entities') > 0
                 /\ \A k \in DOMAIN df_tool :
                      (/\ df_tool[k].id = row.id
                       /\ ~NoConsideredMatch(df_tool[k], gs_entities', matching,
                                             gold_set))
                      => df_tool[k].qid = None)
                => FN' = FN + 1]_vars

\* the gold entity is in the tool output of its document, in a row without QID only,
\* next to a row of another document
C11_Witness ==
    /\ pc = "body" /\ index = 1 /\ FN = 1 /\ Len(gs_entities) > 0
    /\ Len(df_tool) = 2
    /\ \E k \in DOMAIN df_tool :
          /\ df_tool[k].id = gs_row.id /\ df_tool[k].qid = None
          /\ upper(df_tool[k].ent) = gs_entities[1]
    /\ \E k \in DOMAIN df_tool : df_tool[k].id # gs_row.id

\* the tool table without the rows at the indices in S
WithoutRows(tool, S) ==
    LET keep == SelectSeq([k \in DOMAIN tool |-> k], LAMBDA k : k \notin S)
    IN  [j \in DOMAIN keep |-> tool[keep[j]]]

\* C12: a tool row whose entity matches no considered gold entity of a gold row does
\* not contribute to the counters: the pass over the gold row counts the same over
\* the tool table without any set of such rows.
C12_UnmatchedRowsIgnored ==
    [][Pass =>
         LET row == gs_row'
             U == {k \in DOMAIN df_tool :
                      NoConsideredMatch(df_tool[k], gs_entities', matching, gold_set)}
         IN  \A S \in SUBSET U :
                LET b == loop_body(row, WithoutRows(df_tool, S), matching, gold_set,
                                   fill_in_qids)
                    c == counters_after(Counters, b, gold_set)
                IN  TP' = c.TP /\ FP' = c.FP /\ FN' = c.FN]_vars

\* a row of the document that matches no gold entity stands before the matched row
C12_Witness ==
    /\ pc = "body" /\ index = 1 /\ TP = 1
    /\ Len(tool_entities) = 2 /\ tool_match_idx = 1
    /\ NoConsideredMatch(df_tool[1], gs_entities, matching, gold_set)
    /\ df_tool[1].id = gs_row.id

\* C13: a gold row whose entity is found with a QID that is not accepted is counted
\* as the same gold row is when its entity is not found at all (no tool output).
C13_IncorrectCountedAsMissing ==
    [][Pass /\ gs_match_idx' # -1 /\ ~C7_Accepted' =>
         LET b == loop_body(gs_row', <<>>, matching, gold_set, fill_in_qids)
             missing == counters_after(Counters, b, gold_set)
         IN  TP' = missing.TP /\ FP' = missing.FP /\ FN' = missing.FN]_vars

\* C14: the value returned is a tuple made of the precision and the recall computed
\* from the final counters: two entries, precision first and recall second.
C14_TupleOfPrecisionRecall ==
    pc = "done" =>
        /\ Len(ret) = 2
        /\ IF TP + FP > 0 THEN ret[1].n * (TP + FP) = TP * ret[1].d ELSE ret[1].n = 0
        /\ IF TP + FN > 0 THEN ret[2].n * (TP + FN) = TP * ret[2].d ELSE ret[2].n = 0

\* the steps left to the return: two for every gold row not passed (the pass and the
\* way back to the for statement), the rest of the running pass, and the return
StepsLeft ==
    CASE pc = "for" -> 2 * (Len(call.gs) - index) + 1
      [] pc = "body" -> 2 * (Len(call.gs) - index) + 2
      [] OTHER -> 0

\* C18: calculate_precision_recall_f1 is a single pass over the gold table. It
\* terminates: every step brings the return one step nearer, the call never raises,
\* and at the for statement a row is left to pass or the return is due. Each pass
\* takes the row that follows the rows already passed, and the scores are computed
\* when every row has been passed, each once.
C18_SinglePass ==
    /\ [][/\ StepsLeft' = StepsLeft - 1
          /\ pc' \in {"for", "body", "done"}
          /\ pc' = "for" => index' <= Len(call.gs)]_vars
    /\ [][Pass => index' = index + 1 /\ gs_row' = call.gs[index']]_vars
    /\ [][pc' = "done" => index' = Len(call.gs) /\ Len(ret') = 3]_vars

\* two different gold rows, passed in table order
C18_Witness ==
    /\ pc = "done" /\ call.fn = "calculate_precision_recall_f1"
    /\ Len(call.gs) = 2 /\ call.gs[1] # call.gs[2]
    /\ index = 2 /\ gs_row = NoRow /\ n_nonempty = 2

-----------------------------------------------------------------------------
(* Properties of match_gold_pred *)

Last(l) == l[Len(l)]

\* C15: match_gold_pred returns five lists of equal length. A gold row adds one entry
\* to each exactly when its pruned gold set is non-empty and a tool row of its
\* document with a QID matches a considered gold entity, and no entry otherwise.
\* The entries added are the document id, the upper-cased entity and the QID of one
\* tool row of the document, and the matched gold entity with the pruned gold QID at
\* its position; no QID is None; the lists are returned in the order id, tool_ent,
\* gold_ent, q1_gold, q2_pred.
C15_MatchedLists ==
    [][/\ Pass =>
            LET row == gs_row'
                rows == C11_Matchable(df_tool, row.id)
                found == \E k \in DOMAIN rows :
                            ~NoConsideredMatch(rows[k], gs_entities', matching, gold_set)
            IN  IF Len(gs_entities') > 0 /\ found
                THEN /\ \A f \in DOMAIN matched : Len(matched'[f]) = Len(matched[f]) + 1
                     /\ \A f \in DOMAIN matched :
                           SubSeq(matched'[f], 1, Len(matched[f])) = matched[f]
                     /\ Last(matched'.id) = row.id
                     /\ \E k \in DOMAIN rows :
                           /\ upper(rows[k].ent) = Last(matched'.tool_ent)
                           /\ rows[k].qid = Last(matched'.q2_pred)
                     /\ is_match(Last(matched'.tool_ent), Last(matched'.gold_ent),
                                 matching) = TRUE
                     /\ \E g \in DOMAIN gs_entities' :
                           /\ gs_entities'[g] = Last(matched'.gold_ent)
                           /\ gs_qids'[g] = Last(matched'.q1_gold)
                           /\ g - 1 = gs_match_idx'
                     /\ \E g \in DOMAIN row.entity :
                           /\ row.entity[g] = Last(matched'.gold_ent)
                           /\ fill_in(row.qid, fill_in_qids)[g] = Last(matched'.q1_gold)
                     /\ Last(matched'.q1_gold) # None
                     /\ Last(matched'.q2_pred) # None
                ELSE matched' = matched
       /\ \A f, h \in DOMAIN matched' : Len(matched'[f]) = Len(matched'[h])
       /\ pc' = "done" =>
            ret' = <<matched'.id, matched'.tool_ent, matched'.gold_ent,
                     matched'.q1_gold, matched'.q2_pred>>]_vars

\* of two gold rows the first is not matched and the second is, with a tool QID that
\* differs from the gold QID
C15_Witness ==
    /\ pc = "done" /\ index = 2
    /\ Len(ret) = 5 /\ Len(ret[1]) = 1
    /\ ret[2] = <<AB>> /\ ret[3] = <<AB>>
    /\ ret[4] = <<Q2>> /\ ret[5] = <<Q1>>

-----------------------------------------------------------------------------
(* Properties of the UniRel reformat loop *)

\* the triples that the text of a c119_output cell lists first
FirstTriples(text) == (CHOOSE v \in Outputs : repr(v) = text)[1]

\* the number of output rows of an input row: max(1, number of triples)
RowsFor(row) ==
    IF Len(FirstTriples(row.c119_output)) = 0 THEN 1
    ELSE Len(FirstTriples(row.c119_output))

\* the number of output rows of the first j input rows
RECURSIVE Offset(_, _)
Offset(df, j) == IF j = 0 THEN 0 ELSE Offset(df, j - 1) + RowsFor(df[j])

\* C16: the loop flattens the input rows in order: after i passes out_df has the
\* sum of max(1, n) rows over the first i input rows; the rows of the j-th input
\* row are consecutive and copy its c5, c119 and c119_output; they are one row with
\* head, relation and tail None when its first inner list is empty, and else one row
\* per triple, in list order; the loop ends when every input row is passed.
C16_Flatten ==
    LET df == call.result_df
    IN  /\ Len(out_df) = Offset(df, index)
        /\ \A j \in 1..index :
              LET o == Offset(df, j - 1)
                  ts == FirstTriples(df[j].c119_output)
              IN  /\ \A k \in 1..RowsFor(df[j]) :
                        /\ out_df[o + k].c5_id = df[j].c5
                        /\ out_df[o + k].c119_input = df[j].c119
                        /\ out_df[o + k].c119_output = df[j].c119_output
                  /\ ts = <<>> =>
                        /\ out_df[o + 1].head = None
                        /\ out_df[o + 1].relation = None
                        /\ out_df[o + 1].tail = None
                  /\ \A k \in DOMAIN ts :
                        /\ out_df[o + k].head = ts[k][1]
                        /\ out_df[o + k].relation = ts[k][2]
                        /\ out_df[o + k].tail = ts[k][3]
        /\ pc = "done" => index = Len(df)

\* a row without triples, then a row with two triples
C16_Witness ==
    /\ pc = "done" /\ Len(call.result_df) = 2 /\ Len(out_df) = 3
    /\ FirstTriples(call.result_df[1].c119_output) = <<>>
    /\ FirstTriples(call.result_df[2].c119_output) = <<T2, T1>>
    /\ out_df[1].head = None /\ out_df[2].head = "h2" /\ out_df[3].tail = "t1"

-----------------------------------------------------------------------------
(* Properties of get_wikidata_description *)

\* C17: after a completed request get_wikidata_description returns the first
\* binding's itemDescription value when the status is 200 and there are bindings,
\* "No description found." when the status is 200 and there are none (or no results
\* or bindings key), and "Failed to fetch data." for any other status; it makes one
\* HTTP GET, before it looks at a response, and no second request.
C17_WikidataOutcome ==
    /\ Len(http) <= 1
    /\ pc # "call" => Len(http) = 1 /\ http[1].method = "GET" /\ http[1].qid = call.qid
    /\ pc = "return" /\ call.fn = "get_wikidata_description" =>
         LET data == response.json
             some == data.has_results /\ data.has_bindings /\ data.bindings # <<>>
         IN  /\ response.status_code = 200 /\ some
                    => ret = data.bindings[1].itemDescription.value
             /\ response.status_code = 200 /\ ~some => ret = "No description found."
             /\ response.status_code # 200 => ret = "Failed to fetch data."

\* two bindings: the first one's description is returned
C17_Witness ==
    /\ pc = "return" /\ call.fn = "get_wikidata_description"
    /\ response.status_code = 200
    /\ Len(response.json.bindings) = 2
    /\ ret = "d2"
    /\ Len(http) = 1

-----------------------------------------------------------------------------
(* Properties of calculate_class_jc *)

\* C19: calculate_class_jc collects the matched pairs, writes them to temp.csv,
\* posts temp.csv to the API, removes temp.csv and computes the scores, in this
\* order: the file written holds the pairs matched before, the request is made
\* once, with the file written, the file is removed only when the API's answer is
\* there, the scores are returned only when the file is removed; after a normal
\* return there is no temp.csv.
C19_TempFileOrder ==
    /\ [][/\ temp_csv' # temp_csv /\ temp_csv'.exists =>
               /\ http = <<>>
               /\ matched = match_gold_pred(call.gold_df, df_tool, matching,
                                            gold_set, fill_in_qids)
               /\ Len(temp_csv'.lines) = Len(matched.id) + 1
               /\ \A i \in DOMAIN matched.id :
                     temp_csv'.lines[i + 1] = <<matched.q1_gold[i], matched.q2_pred[i]>>
          /\ http' # http =>
               /\ http = <<>> /\ response = NoResponse
               /\ temp_csv.exists /\ temp_csv' = temp_csv
               /\ http'[1].file = make_temp(matched.q1_gold, matched.q2_pred).lines
          /\ response' # response => Len(http) = 1 /\ temp_csv.exists /\ temp_csv'.exists
          /\ temp_csv.exists /\ ~temp_csv'.exists =>
               /\ Len(http) = 1 /\ response # NoResponse /\ ret = <<>>
          /\ ret' # ret => response # NoResponse /\ ~temp_csv.exists]_vars
    /\ [](pc = "done" =>
            /\ ~temp_csv.exists
            /\ Len(ret) = 2
            /\ Len(http) = 1 /\ response # NoResponse)

\* two matched pairs were sent and scored; a temp.csv of an earlier call is gone
C19_Witness ==
    /\ pc = "done" /\ call.fn = "calculate_class_jc"
    /\ Len(matched.id) = 2
    /\ Len(http) = 1 /\ Len(http[1].file) = 3
    /\ http[1].file # StaleFile.lines
    /\ ~temp_csv.exists
    /\ ret = <<Frac(1, 2), Frac(1, 4)>>

-----------------------------------------------------------------------------
(* Properties of the helper functions *)

Returned(fn) == pc = "return" /\ call.fn = fn

\* a occurs in b as a contiguous part: b is pre, a, suf in that order
Contains(b, a) ==
    \E pre \in StrUpTo(Len(b)), suf \in StrUpTo(Len(b)) : b = pre \o a \o suf

C6_PrimaryOnly_AsStated ==
    TP = twin.TP /\ FP = twin.FP /\ FN = twin.FN

\* C6 as amended: with gold_set PRIMARY, for any matching, the counters do not
\* depend on the secondary and tertiary entities and QIDs of the gold table when
\* fill_in_qids is False or no gold row has None as its primary QID.
C6_PrimaryOnly ==
    ~fill_in_qids \/ ~twin.none_primary =>
        TP = twin.TP /\ FP = twin.FP /\ FN = twin.FN

C6_Witness ==
    /\ pc = "body" /\ index = 2 /\ fill_in_qids /\ ~twin.none_primary
    /\ gs_row.entity[2] # None /\ gs_row.qid[2] # None /\ gs_row.qid[3] # None
    /\ TP = 2

\* C8: find_match returns (-1,-1) exactly when no considered gold entity (all under
\* EXTENDED, entry 0 otherwise) matches a tool entity; otherwise (g, t), g the
\* smallest considered gold index with a matching tool entity and t the smallest
\* index of a tool entity matching gs_entities[g].
C8_FindMatch ==
    Returned("find_match") =>
        LET G == IF call.gold_set = "EXTENDED" THEN 0..(Len(call.gs_entities) - 1)
                 ELSE {0}
            T == 0..(Len(call.tool_entities) - 1)
            M(g, t) == is_match(At(call.tool_entities, t), At(call.gs_entities, g),
                                call.matching) = TRUE
            g0 == ret[1]
            t0 == ret[2]
        IN  /\ ret = <<-1, -1>> <=> ~\E g \in G, t \in T : M(g, t)
            /\ ret # <<-1, -1>> =>
                 /\ g0 \in G /\ t0 \in T
                 /\ M(g0, t0)
                 /\ \A g \in G : g < g0 => ~\E t \in T : M(g, t)
                 /\ \A t \in T : t < t0 => ~M(g0, t)

C8_Witness ==
    /\ Returned("find_match") /\ call.gold_set = "EXTENDED"
    /\ call.matching = "STRONG"
    /\ ret = <<1, 1>>

\* the k-th smallest element of a set of numbers
Kth(S, k) == CHOOSE x \in S : Cardinality({y \in S : y < x}) = k - 1

\* C9: prune_gold_set returns two lists of equal length without None, made of
\* exactly the (entity, QID) pairs of the first 3 positions (EXTENDED) or of the
\* first position (any other gold_set) whose entity and filled-in QID are not None,
\* in their original order.
C9_Prune ==
    Returned("prune_gold_set") =>
        LET stop == IF call.gold_set = "EXTENDED" THEN 3 ELSE 1
            keep == {k \in 1..stop : call.gs_entities[k] # None /\ gs_qids[k] # None}
            ents == ret[1]
            qids == ret[2]
        IN  /\ Len(ents) = Len(qids)
            /\ Len(ents) = Cardinality(keep)
            /\ Len(ents) <= stop
            /\ \A i \in DOMAIN ents :
                 /\ ents[i] # None /\ qids[i] # None
                 /\ ents[i] = call.gs_entities[Kth(keep, i)]
                 /\ qids[i] = gs_qids[Kth(keep, i)]

C9_Witness ==
    /\ Returned("prune_gold_set") /\ call.gold_set = "EXTENDED"
    /\ ~call.fill_in_qids
    /\ call.gs_entities = <<A, AB, A>> /\ call.gs_qids = <<Q1, None, Q2>>
    /\ ret = << <<A, A>>, <<Q1, Q2>> >>

\* C10: with fill_in_qids True, a None QID with a non-None QID after it becomes the
\* nearest such QID, a non-None QID is unchanged and a None with no non-None QID
\* after it stays None; with fill_in_qids False no QID changes.
C10_FillIn ==
    Returned("prune_gold_set") =>
        LET old == call.gs_qids
            Later(k) == {j \in DOMAIN old : j > k /\ old[j] # None}
        IN  IF call.fill_in_qids
            THEN \A k \in DOMAIN old :
                   /\ Len(gs_qids) = Len(old)
                   /\ old[k] # None => gs_qids[k] = old[k]
                   /\ old[k] = None /\ Later(k) # {} => gs_qids[k] = old[Min(Later(k))]
                   /\ old[k] = None /\ Later(k) = {} => gs_qids[k] = None
            ELSE gs_qids = old

C10_Witness ==
    /\ Returned("prune_gold_set") /\ call.fill_in_qids
    /\ call.gs_qids = <<None, None, Q2>>
    /\ gs_qids = <<Q2, Q2, Q2>>

====
